---- MODULE Spec2Model ----
(***************************************************************************)
(* Mode coordination of the factory-line kiosk: HardwareManager            *)
(* (src/src/hardware_manager.py) driven by one presentation thread and the *)
(* daemon worker threads it spawns.  Every shared-attribute read or write  *)
(* of the Python code is one step; labels are the source line numbers.     *)
(* ConfigManager (src/src/utils/config_manager.py) and the settings page's *)
(* save_settings are a second process, with specifications of their own.   *)
(***************************************************************************)
EXTENDS Naturals, FiniteSets, Sequences, TLC

\* ---- bounds of the model ----
NThreads == 2      \* worker threads ever created
MaxImages == 2     \* largest collection.images_per_session tried
MaxCount == 2      \* value of classification_count at which no further cycle is begun
MaxVal == 1        \* field values of a configuration section range over 0..MaxVal

Threads == 1..NThreads
None == 0

VARIABLES
  is_collecting,          \* HardwareManager.is_collecting
  is_classifying,         \* HardwareManager.is_classifying
  collection_thread,      \* HardwareManager.collection_thread (None or a thread id)
  classification_thread,  \* HardwareManager.classification_thread
  image_count,            \* HardwareManager.image_count
  classification_count,   \* HardwareManager.classification_count
  page,                   \* page shown by UIManager.show_page
  images_per_session,     \* config["collection"]["images_per_session"]
  model_exists,           \* Path(model_path).exists()
  ui_pc,                  \* source line the presentation thread is at ("idle" = event loop)
  threads,                \* per worker thread: pc, locals
  nthreads,               \* number of Thread objects created so far
  coll_fresh,             \* history: the thread started last by line 32 has not completed a cycle
  class_fresh,            \* history: the thread started last by line 94 has not completed a cycle
  standby_call,           \* history: the stop call in progress was made with both flags false
                          \* (kept until the call has tested its thread, line 37 / 99)
  cfg,                    \* ConfigManager and the file it keeps: the source line the process is at
                          \* (pc), ConfigManager.config, config.json (disk), the new_config of the
                          \* save in progress, the exception raised (err), the save entry point
                          \* (op), and the history fields before and last_saved
  gui                     \* FactoryLineGUI of main.py: the line its presentation thread is at
                          \* (pc), its attributes, its Tk root, its status thread and workers

hw == <<is_collecting, is_classifying, collection_thread, classification_thread,
        image_count, classification_count, page>>
env == <<images_per_session, model_exists, cfg, gui>>
hist == <<coll_fresh, class_fresh, standby_call>>
vars == <<is_collecting, is_classifying, collection_thread, classification_thread,
          image_count, classification_count, page, images_per_session, model_exists,
          ui_pc, threads, nthreads, coll_fresh, class_fresh, standby_call, cfg, gui>>

\* pcs of a thread running collection_loop (and the stop_collection_mode it calls)
CollectionPcs == {"L47", "L47b", "L49", "L49w", "L50", "L53",
                  "L56", "L36", "L37", "L39"}
\* pcs of a thread running classification_loop
ClassificationPcs == {"L108", "L110", "L110w", "L111", "L114"}

\* threading.Thread.is_alive(): started and run() not yet finished
Alive(t) == threads[t].pc \in CollectionPcs \cup ClassificationPcs
CollectionWorkerAlive(t) == threads[t].pc \in CollectionPcs
ClassificationWorkerAlive(t) == threads[t].pc \in ClassificationPcs

LiveCollectionWorkers == {t \in Threads : CollectionWorkerAlive(t)}
LiveClassificationWorkers == {t \in Threads : ClassificationWorkerAlive(t)}
LiveWorkers == LiveCollectionWorkers \cup LiveClassificationWorkers

NoThread == [pc |-> "unborn", max_images |-> 0, tmp |-> 0]

\* a thread whose run() has returned ("done") or ended by an exception ("raised")
Ended(how) == [NoThread EXCEPT !.pc = how]

\* ---------------------------------------------------------------------
\* Configuration documents (src/src/utils/config_manager.py).  A document
\* is a dict of sections or some other JSON value; a section is a dict of
\* keys or some other JSON value.
\* ---------------------------------------------------------------------

\* validate_config, lines 35-42
required_sections == <<"camera", "collection", "classification", "ui", "paths", "sensors">>
Sections == {required_sections[i] : i \in 1..Len(required_sections)}

\* validate_config, lines 49-70
required_keys ==
  [camera |-> {"image_width", "image_height", "capture_format", "quality"},
   collection |-> {"trigger_mode", "auto_capture_interval", "images_per_session"},
   classification |-> {"model_path", "confidence_threshold", "auto_classify_interval"},
   ui |-> {"font_family", "base_screen", "font_sizes", "window_sizing", "colors"},
   paths |-> {"captured_images", "classification_results", "models", "logo"},
   sensors |-> {"ir_sensor_pin", "voltage_threshold", "trigger_delay_ms"}]

\* the sections the settings page has entries for, in the order they were
\* created (ui_manager.py lines 336-367); their fields are the required keys
config_entries == <<"camera", "collection", "classification">>

EntrySections == {config_entries[i] : i \in 1..Len(config_entries)}

Values == 0..MaxVal

\* A document is kept as the set of its differences from the complete document
\* whose fields are all 0: it is no dict at all; a required section is absent,
\* or is a number; a section lacks a required key; the fields of a section the
\* settings page edits hold v (the other sections' values never change).
Diff(t, s, k, v) == [t |-> t, s |-> s, k |-> k, v |-> v]
NotDict == Diff("notdict", "", "", 0)
Absent(s) == Diff("absent", s, "", 0)
Numeric(s) == Diff("numeric", s, "", 0)
Lacking(s, k) == Diff("lacking", s, k, 0)
Holds(s, v) == Diff("holds", s, "", v)

\* self.config = {} of line 10
EmptyDoc == {Absent(s) : s \in Sections}
\* a JSON document that is not an object (a number, null)
NumberDoc == {NotDict}
\* every required section with every required key, fields holding v
FullDoc(v) == IF v = 0 THEN {} ELSE {Holds(s, v) : s \in EntrySections}

\* doc is a dict / section in doc / doc[section] is a dict / its keys / its fields
IsDict(d) == NotDict \notin d
HasSection(d, s) == IsDict(d) /\ Absent(s) \notin d
IsDictSection(d, s) == HasSection(d, s) /\ Numeric(s) \notin d
KeysOf(d, s) ==
  IF IsDictSection(d, s) THEN {k \in required_keys[s] : Lacking(s, k) \notin d} ELSE {}
ValueOf(d, s) ==
  LET held == {x \in d : x.t = "holds" /\ x.s = s}
  IN IF held = {} THEN 0 ELSE (CHOOSE x \in held : TRUE).v

\* the document without anything said about section s
Cleared(d, s) == {x \in d : x.s # s}
WithoutSection(d, s) == Cleared(d, s) \cup {Absent(s)}
WithNumberSection(d, s) == Cleared(d, s) \cup {Numeric(s)}
WithoutKey(d, s, k) ==
  IF KeysOf(d, s) \ {k} = {}
    THEN Cleared(d, s) \cup {Lacking(s, x) : x \in required_keys[s]}
    ELSE d \cup {Lacking(s, k)}
\* doc[s] is a dict holding every required key of s, with field values v
WithFilledSection(d, s, v) ==
  Cleared(d, s) \cup (IF v = 0 THEN {} ELSE {Holds(s, v)})

\* the documents tried: complete ones, and ones with a single defect
Docs ==
  {FullDoc(v) : v \in Values}
    \cup {WithoutSection(FullDoc(0), s) : s \in Sections}
    \cup {WithoutKey(FullDoc(0), s, CHOOSE k \in required_keys[s] : TRUE) : s \in Sections}
    \cup {WithNumberSection(FullDoc(0), s) : s \in {"camera", "sensors"}}
    \cup {WithoutKey(WithNumberSection(FullDoc(0), "sensors"), "camera", "quality")}
    \cup {EmptyDoc, NumberDoc}

\* one member of the JSON text of a document
Member(s, k, v) == [sec |-> s, key |-> k, val |-> v]

\* json.dump(new_config, f, indent=4), line 88: the text of a document
SectionText(d, s) ==
  IF IsDictSection(d, s)
    THEN {Member(s, "{", 0)} \cup {Member(s, k, ValueOf(d, s)) : k \in KeysOf(d, s)}
    ELSE {Member(s, "0", 0)}
Encode(d) ==
  IF IsDict(d)
    THEN {Member("", "{", 0)}
           \cup UNION {SectionText(d, s) : s \in {x \in Sections : HasSection(d, x)}}
    ELSE {Member("", "0", 0)}

\* variant: a parser that keeps the keys of a section and drops their values
Decode_KeysOnly(text) ==
  IF Member("", "{", 0) \notin text
    THEN NumberDoc
    ELSE {Absent(s) : s \in {x \in Sections : \A m \in text : m.sec # x}}
           \cup {Numeric(s) : s \in {x \in Sections : Member(x, "0", 0) \in text}}
           \cup UNION {{Lacking(s, k) : k \in {x \in required_keys[s] :
                                                 /\ Member(s, "{", 0) \in text
                                                 /\ \A m \in text : ~(m.sec = s /\ m.key = x)}}
                        : s \in Sections}

\* json.load(f), line 22: the document of a complete text
Decode(text) ==
  IF Member("", "{", 0) \notin text
    THEN NumberDoc
    ELSE {Absent(s) : s \in {x \in Sections : \A m \in text : m.sec # x}}
           \cup {Numeric(s) : s \in {x \in Sections : Member(x, "0", 0) \in text}}
           \cup UNION {{Lacking(s, k) : k \in {x \in required_keys[s] :
                                                 /\ Member(s, "{", 0) \in text
                                                 /\ \A m \in text : ~(m.sec = s /\ m.key = x)}}
                        : s \in Sections}
           \cup {Holds(m.sec, m.val) : m \in {x \in text : /\ x.sec \in EntrySections
                                                            /\ x.key \notin {"{", "0"}
                                                            /\ x.val # 0}}

\* The file config.json: absent, or holding the text of doc up to the point
\* where the write stopped (written = 0: nothing; n > 0: the opening brace and
\* the first n - 1 sections), or the whole text.
NoFile == [exists |-> FALSE, whole |-> FALSE, written |-> 0, doc |-> {}]
FileOf(d) == [exists |-> TRUE, whole |-> TRUE, written |-> Len(required_sections) + 1, doc |-> d]
\* what is left of the file when the write of line 88 stops after n pieces
PartialFile(d, n) == [exists |-> TRUE, whole |-> FALSE, written |-> n, doc |-> d]
\* open(self.config_path, "w") of line 87 has emptied the file
EmptyFile == [exists |-> TRUE, whole |-> FALSE, written |-> 0, doc |-> {}]
\* the characters in the file
TextOf(f) ==
  IF f.whole THEN Encode(f.doc)
  ELSE {m \in Encode(f.doc) :
          /\ f.written > 0
          /\ m.sec = "" \/ \E i \in 1..(f.written - 1) : m.sec = required_sections[i]}

\* no save has succeeded since the file was last opened for writing
NoSave == [ok |-> FALSE, doc |-> {}]
\* no save is in progress
NoBefore == [config |-> {}, disk |-> NoFile]

\* validate_config, lines 72-79: the loop over required_keys from section i on
RECURSIVE KeysOutcome(_, _)
KeysOutcome(c, i) ==
  IF i > Len(required_sections) THEN "ok"
  ELSE LET s == required_sections[i]
       IN IF ~IsDictSection(c, s) THEN "TypeError"
          ELSE IF required_keys[s] \ KeysOf(c, s) # {} THEN "ValueError"
          ELSE KeysOutcome(c, i + 1)

\* validate_config, lines 33-79: returns ("ok") or raises
validate_config(c) ==
  IF ~IsDict(c) THEN "TypeError"
  ELSE IF {s \in Sections : ~HasSection(c, s)} # {} THEN "ValueError"
  ELSE KeysOutcome(c, 1)

\* HardwareManager.__init__, lines 10-18
HardwareInit ==
  /\ is_collecting = FALSE
  /\ is_classifying = FALSE
  /\ collection_thread = None
  /\ classification_thread = None
  /\ image_count = 0
  /\ classification_count = 0
  /\ page = "main"
  /\ images_per_session \in 0..MaxImages
  /\ model_exists \in BOOLEAN
  /\ ui_pc = "idle"
  /\ threads = [t \in Threads |-> NoThread]
  /\ nthreads = 0
  /\ coll_fresh = FALSE
  /\ class_fresh = FALSE
  /\ standby_call = FALSE

\* where no document is held: no save in progress, no file
NoDoc == {}

\* the ConfigManager of a running application: load_config has succeeded
Loaded ==
  [pc |-> "ready", config |-> FullDoc(0), disk |-> FileOf(FullDoc(0)), new_config |-> NoDoc,
   err |-> "none", op |-> "none", before |-> NoBefore, last_saved |-> NoSave]

ConfigLoaded == cfg = Loaded

\* the application of main.py is another program: it is not running
NotLaunched == [pc |-> "absent"]

Init == HardwareInit /\ ConfigLoaded /\ gui = NotLaunched

\* ---------------------------------------------------------------------
\* Presentation thread.  A button callback runs to completion before the
\* next one is dispatched; worker threads interleave between its lines.
\* ---------------------------------------------------------------------

\* the event loop dispatches one of the four HardwareManager entry points
Dispatch ==
  /\ ui_pc = "idle"
  /\ \E entry \in {"L22", "L36", "L68", "L98"} :
       /\ entry \in {"L22", "L68"} => nthreads < NThreads
       /\ ui_pc' = entry
       /\ standby_call' = (entry \in {"L36", "L98"} /\ ~is_collecting /\ ~is_classifying)
  /\ UNCHANGED <<hw, env, threads, nthreads, coll_fresh, class_fresh>>

\* variant: the is_classifying guard of lines 22-24 is missing
StartCollectionGuard_NoGuard ==
  /\ ui_pc = "L22"
  /\ is_collecting' = TRUE
  /\ ui_pc' = "L27"
  /\ UNCHANGED <<is_classifying, collection_thread, classification_thread,
                 image_count, classification_count, page, env, threads, nthreads, hist>>

\* variant: instead of rejecting, the start switches the other mode off
StartCollectionGuard_Preempt ==
  /\ ui_pc = "L22"
  /\ is_collecting' = TRUE
  /\ is_classifying' = FALSE
  /\ ui_pc' = "L27"
  /\ UNCHANGED <<collection_thread, classification_thread,
                 image_count, classification_count, page, env, threads, nthreads, hist>>

\* start_collection_mode, lines 22-26: the guard, then is_collecting = True
StartCollectionGuard ==
  /\ ui_pc = "L22"
  /\ IF is_classifying
       THEN /\ ui_pc' = "L23"
            /\ UNCHANGED is_collecting
       ELSE /\ is_collecting' = TRUE
            /\ ui_pc' = "L27"
  /\ UNCHANGED <<is_classifying, collection_thread, classification_thread,
                 image_count, classification_count, page, env, threads, nthreads, hist>>

\* a modal messagebox (lines 23, 69, 82-85) is dismissed and the handler returns
DismissDialog ==
  /\ ui_pc \in {"L23", "L69", "L82"}
  /\ ui_pc' = "idle"
  /\ UNCHANGED <<hw, env, threads, nthreads, hist>>

\* line 27: self.image_count = 0
StartCollectionReset ==
  /\ ui_pc = "L27"
  /\ image_count' = 0
  /\ ui_pc' = "L28"
  /\ UNCHANGED <<is_collecting, is_classifying, collection_thread, classification_thread,
                 classification_count, page, env, threads, nthreads, hist>>

\* line 28: self.ui_manager.show_page("collection")
StartCollectionShow ==
  /\ ui_pc = "L28"
  /\ page' = "collection"
  /\ ui_pc' = "L29"
  /\ UNCHANGED <<is_collecting, is_classifying, collection_thread, classification_thread,
                 image_count, classification_count, env, threads, nthreads, hist>>

\* lines 29-31: self.collection_thread = threading.Thread(...), not yet started
StartCollectionCreate ==
  /\ ui_pc = "L29"
  /\ nthreads < NThreads
  /\ nthreads' = nthreads + 1
  /\ collection_thread' = nthreads + 1
  /\ threads' = [threads EXCEPT ![nthreads + 1] = [NoThread EXCEPT !.pc = "new"]]
  /\ ui_pc' = "L32"
  /\ UNCHANGED <<is_collecting, is_classifying, classification_thread,
                 image_count, classification_count, page, env, hist>>

\* line 32: self.collection_thread.start(); the new thread runs lines 43-45,
\* reading tunables that no step of this specification changes
StartCollectionSpawn ==
  /\ ui_pc = "L32"
  /\ threads' = [threads EXCEPT ![collection_thread].pc = "L47",
                                ![collection_thread].max_images = images_per_session]
  /\ coll_fresh' = TRUE
  /\ ui_pc' = "idle"
  /\ UNCHANGED <<hw, env, nthreads, class_fresh, standby_call>>

\* stop_collection_mode on the presentation thread, line 36
StopCollectionClear ==
  /\ ui_pc = "L36"
  /\ is_collecting' = FALSE
  /\ ui_pc' = "L37"
  /\ UNCHANGED <<is_classifying, collection_thread, classification_thread,
                 image_count, classification_count, page, env, threads, nthreads, hist>>

\* line 37: if self.collection_thread and self.collection_thread.is_alive()
StopCollectionAlive ==
  /\ ui_pc = "L37"
  /\ ui_pc' = IF collection_thread # None /\ Alive(collection_thread) THEN "L38" ELSE "L39"
  /\ standby_call' = FALSE
  /\ UNCHANGED <<hw, env, threads, nthreads, coll_fresh, class_fresh>>

\* variant: join() without a timeout, which returns only once the worker has ended
StopCollectionJoin_NoTimeout ==
  /\ ui_pc = "L38"
  /\ ~Alive(collection_thread)
  /\ ui_pc' = "L39"
  /\ UNCHANGED <<hw, env, threads, nthreads, hist>>

\* line 38: join(timeout=1.0) returns because the worker ended or the second elapsed
StopCollectionJoin ==
  /\ ui_pc = "L38"
  /\ ui_pc' = "L39"
  /\ UNCHANGED <<hw, env, threads, nthreads, hist>>

\* line 39: self.ui_manager.show_page("main")
StopCollectionShow ==
  /\ ui_pc = "L39"
  /\ page' = "main"
  /\ ui_pc' = "idle"
  /\ UNCHANGED <<is_collecting, is_classifying, collection_thread, classification_thread,
                 image_count, classification_count, env, threads, nthreads, hist>>

\* variant: the model-path check of lines 78-86 comes after is_classifying = True
StartClassificationGuard_LateModelCheck ==
  /\ ui_pc = "L68"
  /\ IF is_collecting
       THEN /\ ui_pc' = "L69"
            /\ UNCHANGED is_classifying
       ELSE /\ is_classifying' = TRUE
            /\ ui_pc' = IF model_exists THEN "L89" ELSE "L82"
  /\ UNCHANGED <<is_collecting, collection_thread, classification_thread,
                 image_count, classification_count, page, env, threads, nthreads, hist>>

\* start_classification_mode, lines 68-88: both guards, then is_classifying = True
StartClassificationGuard ==
  /\ ui_pc = "L68"
  /\ IF is_collecting
       THEN /\ ui_pc' = "L69"
            /\ UNCHANGED is_classifying
       ELSE IF ~model_exists
         THEN /\ ui_pc' = "L82"
              /\ UNCHANGED is_classifying
         ELSE /\ is_classifying' = TRUE
              /\ ui_pc' = "L89"
  /\ UNCHANGED <<is_collecting, collection_thread, classification_thread,
                 image_count, classification_count, page, env, threads, nthreads, hist>>

\* line 89: self.classification_count = 0
StartClassificationReset ==
  /\ ui_pc = "L89"
  /\ classification_count' = 0
  /\ ui_pc' = "L90"
  /\ UNCHANGED <<is_collecting, is_classifying, collection_thread, classification_thread,
                 image_count, page, env, threads, nthreads, hist>>

\* line 90: self.ui_manager.show_page("classification")
StartClassificationShow ==
  /\ ui_pc = "L90"
  /\ page' = "classification"
  /\ ui_pc' = "L91"
  /\ UNCHANGED <<is_collecting, is_classifying, collection_thread, classification_thread,
                 image_count, classification_count, env, threads, nthreads, hist>>

\* lines 91-93: self.classification_thread = threading.Thread(...)
StartClassificationCreate ==
  /\ ui_pc = "L91"
  /\ nthreads < NThreads
  /\ nthreads' = nthreads + 1
  /\ classification_thread' = nthreads + 1
  /\ threads' = [threads EXCEPT ![nthreads + 1] = [NoThread EXCEPT !.pc = "new"]]
  /\ ui_pc' = "L94"
  /\ UNCHANGED <<is_collecting, is_classifying, collection_thread,
                 image_count, classification_count, page, env, hist>>

\* line 94: self.classification_thread.start(); the new thread runs lines 105-106
StartClassificationSpawn ==
  /\ ui_pc = "L94"
  /\ threads' = [threads EXCEPT ![classification_thread].pc = "L108"]
  /\ class_fresh' = TRUE
  /\ ui_pc' = "idle"
  /\ UNCHANGED <<hw, env, nthreads, coll_fresh, standby_call>>

\* stop_classification_mode, line 98
StopClassificationClear ==
  /\ ui_pc = "L98"
  /\ is_classifying' = FALSE
  /\ ui_pc' = "L99"
  /\ UNCHANGED <<is_collecting, collection_thread, classification_thread,
                 image_count, classification_count, page, env, threads, nthreads, hist>>

\* line 99: if self.classification_thread and self.classification_thread.is_alive()
StopClassificationAlive ==
  /\ ui_pc = "L99"
  /\ ui_pc' = IF classification_thread # None /\ Alive(classification_thread)
                THEN "L100" ELSE "L101"
  /\ standby_call' = FALSE
  /\ UNCHANGED <<hw, env, threads, nthreads, coll_fresh, class_fresh>>

\* line 100: join(timeout=1.0) returns, worker ended or not
StopClassificationJoin ==
  /\ ui_pc = "L100"
  /\ ui_pc' = "L101"
  /\ UNCHANGED <<hw, env, threads, nthreads, hist>>

\* line 101: self.ui_manager.show_page("main")
StopClassificationShow ==
  /\ ui_pc = "L101"
  /\ page' = "main"
  /\ ui_pc' = "idle"
  /\ UNCHANGED <<is_collecting, is_classifying, collection_thread, classification_thread,
                 image_count, classification_count, env, threads, nthreads, hist>>

\* ---------------------------------------------------------------------
\* Worker threads.
\* ---------------------------------------------------------------------

\* line 47, left operand: while self.is_collecting and ...
CollectionTestFlag(t) ==
  /\ threads[t].pc = "L47"
  /\ threads' = [threads EXCEPT ![t].pc = IF is_collecting THEN "L47b" ELSE "L56"]
  /\ UNCHANGED <<hw, env, ui_pc, nthreads, hist>>

\* variant: the session cap is compared with <= instead of <
CollectionTestCount_OffByOne(t) ==
  /\ threads[t].pc = "L47b"
  /\ threads' = [threads EXCEPT
                   ![t].pc = IF image_count <= threads[t].max_images THEN "L49" ELSE "L56"]
  /\ UNCHANGED <<hw, env, ui_pc, nthreads, hist>>

\* line 47, right operand: ... self.image_count < max_images
CollectionTestCount(t) ==
  /\ threads[t].pc = "L47b"
  /\ threads' = [threads EXCEPT
                   ![t].pc = IF image_count < threads[t].max_images THEN "L49" ELSE "L56"]
  /\ UNCHANGED <<hw, env, ui_pc, nthreads, hist>>

\* lines 48-49: simulate_image_capture(), then the load of self.image_count += 1
CollectionIncRead(t) ==
  /\ threads[t].pc = "L49"
  /\ threads' = [threads EXCEPT ![t].pc = "L49w", ![t].tmp = image_count]
  /\ UNCHANGED <<hw, env, ui_pc, nthreads, hist>>

\* line 49: the store of self.image_count += 1
CollectionIncWrite(t) ==
  /\ threads[t].pc = "L49w"
  /\ image_count' = threads[t].tmp + 1
  /\ coll_fresh' = (coll_fresh /\ t # collection_thread)
  /\ threads' = [threads EXCEPT ![t].pc = "L50", ![t].tmp = 0]
  /\ UNCHANGED <<is_collecting, is_classifying, collection_thread, classification_thread,
                 classification_count, page, env, ui_pc, nthreads, class_fresh, standby_call>>

\* lines 50-52: update_collection_count(self.image_count), whose argument is
\* image_count as it is now, then
\* if self.is_collecting: sleep, else back to the loop test
CollectionPublish(t) ==
  /\ threads[t].pc = "L50"
  /\ threads' = [threads EXCEPT ![t].pc = IF is_collecting THEN "L53" ELSE "L47"]
  /\ UNCHANGED <<hw, env, ui_pc, nthreads, hist>>

\* line 53: time.sleep(interval) ends
CollectionSleep(t) ==
  /\ threads[t].pc = "L53"
  /\ threads' = [threads EXCEPT ![t].pc = "L47"]
  /\ UNCHANGED <<hw, env, ui_pc, nthreads, hist>>

\* line 56: if self.is_collecting: self.stop_collection_mode(); else run() returns
CollectionAutoStop(t) ==
  /\ threads[t].pc = "L56"
  /\ threads' = [threads EXCEPT ![t] = IF is_collecting THEN [@ EXCEPT !.pc = "L36"]
                                                        ELSE Ended("done")]
  /\ UNCHANGED <<hw, env, ui_pc, nthreads, hist>>

\* stop_collection_mode running on the worker, line 36
WorkerStopClear(t) ==
  /\ threads[t].pc = "L36"
  /\ is_collecting' = FALSE
  /\ threads' = [threads EXCEPT ![t].pc = "L37"]
  /\ UNCHANGED <<is_classifying, collection_thread, classification_thread,
                 image_count, classification_count, page, env, ui_pc, nthreads, hist>>

\* lines 37-38 on the worker: Thread.join() of the calling thread itself raises
\* RuntimeError, which ends run(); join(timeout=1.0) of a different live thread
\* returns, that thread ended or not
WorkerStopAlive(t) ==
  /\ threads[t].pc = "L37"
  /\ threads' = [threads EXCEPT ![t] =
                   IF collection_thread # None /\ Alive(collection_thread)
                     THEN IF collection_thread = t THEN Ended("raised")
                                                   ELSE [@ EXCEPT !.pc = "L39"]
                     ELSE [@ EXCEPT !.pc = "L39"]]
  /\ UNCHANGED <<hw, env, ui_pc, nthreads, hist>>

\* line 39 on the worker: show_page("main"), then run() returns
WorkerStopShow(t) ==
  /\ threads[t].pc = "L39"
  /\ page' = "main"
  /\ threads' = [threads EXCEPT ![t] = Ended("done")]
  /\ UNCHANGED <<is_collecting, is_classifying, collection_thread, classification_thread,
                 image_count, classification_count, env, ui_pc, nthreads, hist>>

\* variant: classification gets the session cap and auto-stop of collection
ClassificationTest_Capped(t) ==
  /\ threads[t].pc = "L108"
  /\ IF is_classifying /\ classification_count < images_per_session
       THEN /\ threads' = [threads EXCEPT ![t].pc = "L110"]
            /\ UNCHANGED is_classifying
       ELSE /\ threads' = [threads EXCEPT ![t] = Ended("done")]
            /\ is_classifying' = FALSE
  /\ UNCHANGED <<is_collecting, collection_thread, classification_thread,
                 image_count, classification_count, page, env, ui_pc, nthreads, hist>>

\* variant: while True, the loop never looks at is_classifying
ClassificationTest_IgnoresFlag(t) ==
  /\ threads[t].pc = "L108"
  /\ classification_count < MaxCount
  /\ threads' = [threads EXCEPT ![t].pc = "L110"]
  /\ UNCHANGED <<hw, env, ui_pc, nthreads, hist>>

\* lines 105-108: while self.is_classifying (a worker that finds the flag true
\* with the count at MaxCount goes no further in the model; one that finds it
\* false always leaves the loop)
ClassificationTest(t) ==
  /\ threads[t].pc = "L108"
  /\ is_classifying => classification_count < MaxCount
  /\ threads' = [threads EXCEPT ![t] = IF is_classifying THEN [@ EXCEPT !.pc = "L110"]
                                                         ELSE Ended("done")]
  /\ UNCHANGED <<hw, env, ui_pc, nthreads, hist>>

\* lines 109-110: simulate_classification(), then the load of classification_count += 1
ClassificationIncRead(t) ==
  /\ threads[t].pc = "L110"
  /\ threads' = [threads EXCEPT ![t].pc = "L110w", ![t].tmp = classification_count]
  /\ UNCHANGED <<hw, env, ui_pc, nthreads, hist>>

\* line 110: the store of self.classification_count += 1
ClassificationIncWrite(t) ==
  /\ threads[t].pc = "L110w"
  /\ classification_count' = threads[t].tmp + 1
  /\ class_fresh' = (class_fresh /\ t # classification_thread)
  /\ threads' = [threads EXCEPT ![t].pc = "L111", ![t].tmp = 0]
  /\ UNCHANGED <<is_collecting, is_classifying, collection_thread, classification_thread,
                 image_count, page, env, ui_pc, nthreads, coll_fresh, standby_call>>

\* lines 111-113: update_classification_count(self.classification_count), whose
\* argument is classification_count as it is now, then
\* if self.is_classifying: sleep, else back to the loop test
ClassificationPublish(t) ==
  /\ threads[t].pc = "L111"
  /\ threads' = [threads EXCEPT ![t].pc = IF is_classifying THEN "L114" ELSE "L108"]
  /\ UNCHANGED <<hw, env, ui_pc, nthreads, hist>>

\* line 114: time.sleep(interval) ends
ClassificationSleep(t) ==
  /\ threads[t].pc = "L114"
  /\ threads' = [threads EXCEPT ![t].pc = "L108"]
  /\ UNCHANGED <<hw, env, ui_pc, nthreads, hist>>

\* the operator places model.tflite in models/pretrained/
PlaceModel ==
  /\ ~model_exists
  /\ model_exists' = TRUE
  /\ UNCHANGED <<hw, images_per_session, cfg, gui, ui_pc, threads, nthreads, hist>>

UIStep ==
  \/ Dispatch
  \/ StartCollectionGuard
  \/ DismissDialog
  \/ StartCollectionReset
  \/ StartCollectionShow
  \/ StartCollectionCreate
  \/ StartCollectionSpawn
  \/ StopCollectionClear
  \/ StopCollectionAlive
  \/ StopCollectionJoin
  \/ StopCollectionShow
  \/ StartClassificationGuard
  \/ StartClassificationReset
  \/ StartClassificationShow
  \/ StartClassificationCreate
  \/ StartClassificationSpawn
  \/ StopClassificationClear
  \/ StopClassificationAlive
  \/ StopClassificationJoin
  \/ StopClassificationShow

WorkerStep(t) ==
  \/ CollectionTestFlag(t)
  \/ CollectionTestCount(t)
  \/ CollectionIncRead(t)
  \/ CollectionIncWrite(t)
  \/ CollectionPublish(t)
  \/ CollectionSleep(t)
  \/ CollectionAutoStop(t)
  \/ WorkerStopClear(t)
  \/ WorkerStopAlive(t)
  \/ WorkerStopShow(t)
  \/ ClassificationTest(t)
  \/ ClassificationIncRead(t)
  \/ ClassificationIncWrite(t)
  \/ ClassificationPublish(t)
  \/ ClassificationSleep(t)

Next ==
  \/ UIStep
  \/ \E t \in Threads : WorkerStep(t)
  \/ PlaceModel

Spec == Init /\ [][Next]_vars

\* ---------------------------------------------------------------------
\* Sessions the presentation thread leaves alone: it makes no stop call
\* and does not call start_collection_mode while already Collecting.
\* ---------------------------------------------------------------------

SessionDispatch ==
  /\ ui_pc = "idle"
  /\ nthreads < NThreads
  /\ \E entry \in {"L22", "L68"} :
       /\ entry = "L22" => ~is_collecting
       /\ ui_pc' = entry
  /\ UNCHANGED <<hw, env, threads, nthreads, hist>>

\* the rest of a start handler, once dispatched
StartStep ==
  \/ StartCollectionGuard
  \/ DismissDialog
  \/ StartCollectionReset
  \/ StartCollectionShow
  \/ StartCollectionCreate
  \/ StartCollectionSpawn
  \/ StartClassificationGuard
  \/ StartClassificationReset
  \/ StartClassificationShow
  \/ StartClassificationCreate
  \/ StartClassificationSpawn

SessionNext ==
  \/ SessionDispatch
  \/ StartStep
  \/ \E t \in Threads : WorkerStep(t)
  \/ PlaceModel

\* a handler that was dispatched runs on, and every started thread is scheduled
SessionSpec ==
  /\ Init
  /\ [][SessionNext]_vars
  /\ WF_vars(StartStep)
  /\ \A t \in Threads : WF_vars(WorkerStep(t))

\* ---------------------------------------------------------------------
\* Properties
\* ---------------------------------------------------------------------

\* a step of the presentation thread
UIMoves == ui_pc' # ui_pc

\* thread t completes a capture (classification) cycle: the store of line 49 (110)
CaptureCycleDone(t) == threads[t].pc = "L49w" /\ threads'[t].pc = "L50"
ClassifyCycleDone(t) == threads[t].pc = "L110w" /\ threads'[t].pc = "L111"

\* C1: at most one background worker thread (collection or classification)
\* is alive at any time.
C1_AtMostOneWorker == Cardinality(LiveWorkers) <= 1

\* C2: is_collecting is never true while a classification worker is alive and
\* is_classifying is never true while a collection worker is alive.
C2_ModeWorkerExclusion ==
  /\ is_collecting => LiveClassificationWorkers = {}
  /\ is_classifying => LiveCollectionWorkers = {}

\* C3: the flags is_collecting and is_classifying are never both true.
C3_FlagsExclusive == ~(is_collecting /\ is_classifying)

\* C3 witness: classification was started while a collection worker,
\* abandoned by a timed-out join, is still alive
C3_Witness ==
  /\ is_classifying
  /\ ~is_collecting
  /\ LiveCollectionWorkers # {}
  /\ LiveClassificationWorkers # {}

\* C4: start_collection_mode() while already Collecting (and
\* start_classification_mode() with the model present while already
\* Classifying) returns without touching the state: the handler does not go
\* on to reset the counter and create a worker.
C4_IdempotentStart ==
  [][ /\ (ui_pc = "L22" /\ is_collecting /\ UIMoves)
         => (ui_pc' = "idle" /\ UNCHANGED <<hw, threads, nthreads>>)
      /\ (ui_pc = "L68" /\ is_classifying /\ model_exists /\ UIMoves)
         => (ui_pc' = "idle" /\ UNCHANGED <<hw, threads, nthreads>>) ]_vars

\* C5: with the model file missing, start_classification_mode() called in
\* Standby shows the error and returns; no flag, counter, thread reference,
\* page or thread changes, and no worker is created.
C5_ModelMissingRejected ==
  [][ /\ (ui_pc = "L68" /\ ~is_collecting /\ ~is_classifying /\ ~model_exists /\ UIMoves)
         => (ui_pc' = "L82" /\ UNCHANGED <<hw, threads, nthreads>>)
      /\ (ui_pc = "L82" /\ UIMoves)
         => (ui_pc' = "idle" /\ UNCHANGED <<hw, threads, nthreads>>) ]_vars

\* C5 witness: the error dialog is up after a start in Standby, nothing started
C5_Witness ==
  /\ ui_pc = "L82"
  /\ ~is_collecting /\ ~is_classifying
  /\ classification_thread = None
  /\ page = "main"

\* C6: a start of one mode while the other is active shows the warning and
\* returns to the event loop; flags, counters, thread references, page and
\* threads are unchanged by the call.
C6_ConflictRejected ==
  [][ /\ (ui_pc = "L22" /\ is_classifying /\ UIMoves)
         => (ui_pc' = "L23" /\ UNCHANGED <<hw, threads, nthreads>>)
      /\ (ui_pc = "L68" /\ is_collecting /\ UIMoves)
         => (ui_pc' = "L69" /\ UNCHANGED <<hw, threads, nthreads>>)
      /\ (ui_pc \in {"L23", "L69"} /\ UIMoves)
         => (ui_pc' = "idle" /\ UNCHANGED <<hw, threads, nthreads>>) ]_vars

\* C6 witness: the warning of line 23 is up while classification runs
C6_Witness ==
  /\ ui_pc = "L23"
  /\ is_classifying /\ ~is_collecting
  /\ classification_thread # None /\ Alive(classification_thread)
  /\ page = "classification"

C8_CounterZeroAfterStart ==
  /\ ( /\ ui_pc \notin {"L27", "L28", "L29", "L32"}
       /\ collection_thread # None
       /\ Alive(collection_thread)
       /\ coll_fresh ) => image_count = 0
  /\ ( /\ ui_pc \notin {"L89", "L90", "L91", "L94"}
       /\ classification_thread # None
       /\ Alive(classification_thread)
       /\ class_fresh ) => classification_count = 0

\* C9: every completed cycle increases its counter by exactly 1, and nothing
\* but the reset of a start (lines 27, 89) changes a counter otherwise, so a
\* counter equals the number of cycles completed since the last start.
C9_OnePerCycle ==
  [][ /\ \A t \in Threads : CaptureCycleDone(t) => image_count' = image_count + 1
      /\ \A t \in Threads : ClassifyCycleDone(t) => classification_count' = classification_count + 1
      /\ (image_count' # image_count)
           => (ui_pc = "L27" \/ \E t \in Threads : CaptureCycleDone(t))
      /\ (classification_count' # classification_count)
           => (ui_pc = "L89" \/ \E t \in Threads : ClassifyCycleDone(t)) ]_vars

\* C10: classification has no cap: while is_classifying is true (outside the
\* start handler) the classification worker is alive, a worker at the loop
\* test with the flag true enters the body whatever the count, and only
\* line 98 of stop_classification_mode clears is_classifying.
C10_NoClassificationCap ==
  /\ []( (is_classifying /\ ui_pc \notin {"L89", "L90", "L91", "L94"})
           => (classification_thread # None /\ Alive(classification_thread)) )
  /\ [][ /\ (is_classifying /\ ~is_classifying') => ui_pc = "L98"
         /\ \A t \in Threads :
              (threads[t].pc = "L108" /\ threads'[t].pc # "L108" /\ is_classifying)
                => threads'[t].pc = "L110" ]_vars

\* C10 witness: the worker is back at the loop test after MaxCount cycles,
\* still classifying
C10_Witness ==
  /\ is_classifying
  /\ classification_count = MaxCount
  /\ classification_thread # None
  /\ threads[classification_thread].pc = "L108"

\* ---------------------------------------------------------------------
\* The operator at the kiosk: only the buttons of the page shown can be
\* pressed (the start buttons are on the main page, each stop button on its
\* mode's page), and a mode is started only once no earlier worker of it is
\* still inside its loop.
\* ---------------------------------------------------------------------

CollectionLoopPcs == {"L47", "L47b", "L49", "L49w", "L50", "L53"}

ButtonDispatch ==
  /\ ui_pc = "idle"
  /\ \E entry \in {"L22", "L36", "L68", "L98"} :
       /\ entry \in {"L22", "L68"} => (nthreads < NThreads /\ page = "main")
       /\ entry = "L22" => \A t \in Threads : threads[t].pc \notin CollectionLoopPcs
       /\ entry = "L68" => LiveClassificationWorkers = {}
       /\ entry = "L36" => page = "collection"
       /\ entry = "L98" => page = "classification"
       /\ ui_pc' = entry
       /\ standby_call' = (entry \in {"L36", "L98"} /\ ~is_collecting /\ ~is_classifying)
  /\ UNCHANGED <<hw, env, threads, nthreads, coll_fresh, class_fresh>>

StopStep ==
  \/ StopCollectionClear
  \/ StopCollectionAlive
  \/ StopCollectionJoin
  \/ StopCollectionShow
  \/ StopClassificationClear
  \/ StopClassificationAlive
  \/ StopClassificationJoin
  \/ StopClassificationShow

OperatorNext ==
  \/ ButtonDispatch
  \/ StartStep
  \/ StopStep
  \/ \E t \in Threads : WorkerStep(t)
  \/ PlaceModel

\* the presentation thread is never starved inside a stop handler; nothing is
\* assumed about the workers
StopSpec == Init /\ [][OperatorNext]_vars /\ WF_vars(StopStep)

\* ---------------------------------------------------------------------
\* Every started worker thread keeps being scheduled; nothing is assumed
\* about the presentation thread.
\* ---------------------------------------------------------------------

WorkerSpec == Init /\ [][OperatorNext]_vars /\ \A t \in Threads : WF_vars(WorkerStep(t))

\* ---------------------------------------------------------------------
\* stop_collection_mode / stop_classification_mode
\* ---------------------------------------------------------------------

\* C11: a stop call made in Standby (both flags false at the call) keeps both
\* flags false, leaves the counters alone, creates no worker and joins no worker:
\* its flag write and its thread test change no counter and no thread, and the
\* test does not take the call to the join of line 38 or line 100.
C11_StandbyStopJoinsNothing ==
  [][ (standby_call /\ UIMoves) =>
        /\ ~is_collecting' /\ ~is_classifying'
        /\ UNCHANGED <<image_count, classification_count, threads, nthreads,
                       collection_thread, classification_thread>>
        /\ ui_pc' \notin {"L38", "L100"} ]_vars

\* C12: a stop call made by the presentation thread while its mode is active
\* returns, and when it has returned the mode's flag is false and the main page
\* has been shown, both when the join found the worker ended and when it timed out.
C12_StopReturnsToStandby ==
  /\ (ui_pc = "L36" /\ is_collecting) ~> (ui_pc = "idle" /\ ~is_collecting /\ page = "main")
  /\ (ui_pc = "L98" /\ is_classifying) ~> (ui_pc = "idle" /\ ~is_classifying /\ page = "main")
  /\ [][ (ui_pc = "L39" /\ UIMoves) => (ui_pc' = "idle" /\ ~is_collecting' /\ page' = "main") ]_vars
  /\ [][ (ui_pc = "L101" /\ UIMoves) => (ui_pc' = "idle" /\ ~is_classifying' /\ page' = "main") ]_vars

\* the join of a stop call made in an active mode has timed out: the only
\* worker ever created is still in its loop, so it was this call that cleared
\* the flag, when the handler goes on to show the main page
C12_Witness ==
  /\ ui_pc = "L39"
  /\ ~is_collecting
  /\ nthreads = 1
  /\ collection_thread # None
  /\ threads[collection_thread].pc \in CollectionLoopPcs

\* C13: cancellation is cooperative and effective: a live worker whose mode flag
\* has been cleared ends by itself, unless the same mode is started again first.
C13_ClearedFlagEndsWorker ==
  \A t \in Threads :
    /\ (CollectionWorkerAlive(t) /\ ~is_collecting)
          ~> (~CollectionWorkerAlive(t) \/ is_collecting)
    /\ (ClassificationWorkerAlive(t) /\ ~is_classifying)
          ~> (~ClassificationWorkerAlive(t) \/ is_classifying)

\* a worker has left its loop through the test of the cleared flag, after a stop
\* call of the presentation thread whose join had timed out
C13_Witness ==
  /\ ui_pc = "idle"
  /\ ~is_classifying
  /\ classification_thread # None
  /\ threads[classification_thread].pc = "done"
  /\ classification_count > 0

\* ---------------------------------------------------------------------
\* Publication of the counters
\* ---------------------------------------------------------------------

\* C14: in every worker cycle the increment comes before the publication and the
\* wait after it, and the value handed to update_collection_count /
\* update_classification_count is the one the increment of that same cycle
\* stored, which is a count of at least 1.
C14_PublishesOwnIncrement ==
  [][ \A t \in Threads :
        /\ threads'[t].pc = "L50" => threads[t].pc \in {"L49w", "L50"}
        /\ threads'[t].pc = "L53" => threads[t].pc \in {"L50", "L53"}
        /\ threads'[t].pc = "L111" => threads[t].pc \in {"L110w", "L111"}
        /\ threads'[t].pc = "L114" => threads[t].pc \in {"L111", "L114"}
        /\ (threads[t].pc = "L50" /\ threads'[t].pc # "L50") => image_count >= 1
        /\ (threads[t].pc = "L111" /\ threads'[t].pc # "L111")
              => classification_count >= 1 ]_vars

\* C15: a worker thread never changes what the presentation thread owns: the
\* page shown changes only in steps of the presentation thread, never in a step
\* of a worker (a worker would post the change to the event queue instead).
C15_WorkerNeverShowsPage ==
  [][ \A t \in Threads : threads'[t] # threads[t] => page' = page ]_vars

\* ---------------------------------------------------------------------
\* The session cap, the auto-stop and the counters after a stop
\* ---------------------------------------------------------------------

\* C22: image_count never exceeds collection.images_per_session, the cap the
\* worker of the session has read at line 43, whatever the start and stop calls
\* and the interleaving of the workers.
C22_CountWithinCap ==
  image_count <= images_per_session

\* pcs of a worker inside the stop_collection_mode it has called itself
AutoStopPcs == {"L36", "L37", "L39"}

\* C23: the auto-stop ends as a manual stop does: the stop_collection_mode a
\* worker calls at line 57 clears is_collecting, completes without an error by
\* returning from line 39 with the main page shown, and always completes.
C23_AutoStopLikeManualStop ==
  /\ [][ \A t \in Threads :
           /\ (threads[t].pc = "L36" /\ threads'[t].pc # "L36") => ~is_collecting'
           /\ (threads[t].pc \in AutoStopPcs /\ threads'[t].pc \notin AutoStopPcs)
                 => (threads[t].pc = "L39" /\ threads'[t].pc = "done" /\ page' = "main") ]_vars
  /\ \A t \in Threads : (threads[t].pc = "L36") ~> (threads[t].pc = "done")

\* States that only a stop call which has returned can have produced: the one
\* worker ever created is still in its loop, its mode flag is false (cleared by
\* line 36 / 98, since that worker has not stopped itself) and the presentation
\* thread is back in the event loop; no start of the mode has followed.
StoppedCollection ==
  /\ ui_pc = "idle" /\ ~is_collecting
  /\ nthreads = 1 /\ collection_thread = 1
  /\ threads[1].pc \in CollectionLoopPcs
StoppedClassification ==
  /\ ui_pc = "idle" /\ ~is_classifying
  /\ nthreads = 1 /\ classification_thread = 1
  /\ threads[1].pc \in ClassificationPcs

\* C24: once a stop call has returned to the presentation thread, and until the
\* mode is started again, the mode's counter does not change and no count is
\* published (lines 50, 111), even when the join timed out and the worker lives on.
C24_QuietAfterStop ==
  [][ /\ StoppedCollection
         => (image_count' = image_count /\ (threads[1].pc = "L50" => threads'[1].pc = "L50"))
      /\ StoppedClassification
         => /\ classification_count' = classification_count
            /\ threads[1].pc = "L111" => threads'[1].pc = "L111" ]_vars

\* ---------------------------------------------------------------------
\* ConfigManager (src/src/utils/config_manager.py) and the settings page's
\* save_settings (src/src/ui_manager.py): one process that is launched,
\* loads config.json, and once running saves documents; it can be launched
\* again after it has ended.  Nothing here touches the modes.
\* ---------------------------------------------------------------------

mode == <<hw, images_per_session, model_exists, ui_pc, threads, nthreads, hist, gui>>

\* the files config.json may hold when the application is launched
StartFiles == {NoFile, EmptyFile} \cup {FileOf(d) : d \in Docs}

ConfigInit ==
  /\ HardwareInit
  /\ images_per_session = 0
  /\ model_exists = FALSE
  /\ \E f \in StartFiles :
       cfg = [Loaded EXCEPT !.pc = "start", !.config = EmptyDoc, !.disk = f]
  /\ gui = NotLaunched

\* ConfigManager.__init__, lines 8-11: self.config = {}, then load_config()
ConfigManagerInit ==
  /\ cfg.pc = "start"
  /\ cfg' = [cfg EXCEPT !.config = EmptyDoc, !.pc = "L16"]
  /\ UNCHANGED mode

\* lines 16-19: if not self.config_path.exists(): raise FileNotFoundError
LoadExists ==
  /\ cfg.pc = "L16"
  /\ cfg' = IF cfg.disk.exists
              THEN [cfg EXCEPT !.pc = "L21"]
              ELSE [cfg EXCEPT !.pc = "L27", !.err = "FileNotFoundError"]
  /\ UNCHANGED mode

\* lines 21-22: self.config = json.load(f); a text that is no JSON document
\* raises JSONDecodeError, a ValueError, before the assignment
LoadParse ==
  /\ cfg.pc = "L21"
  /\ cfg' = IF cfg.disk.whole
              THEN [cfg EXCEPT !.config = Decode(TextOf(cfg.disk)), !.pc = "L24"]
              ELSE [cfg EXCEPT !.err = "JSONDecodeError", !.pc = "L27"]
  /\ UNCHANGED mode

\* line 24: self.validate_config(); line 26 catches FileNotFoundError and
\* ValueError only, a TypeError leaves load_config and the constructor
LoadValidate ==
  /\ cfg.pc = "L24"
  /\ LET outcome == validate_config(cfg.config)
     IN cfg' = [cfg EXCEPT !.pc = CASE outcome = "ok" -> "ready"
                                     [] outcome = "ValueError" -> "L27"
                                     [] outcome = "TypeError" -> "crashed",
                           !.err = IF outcome = "ok" THEN @ ELSE outcome]
  /\ UNCHANGED mode

\* lines 26-31: messagebox.showerror("Configuration Error", ...), then exit()
LoadReport ==
  /\ cfg.pc = "L27"
  /\ cfg' = [cfg EXCEPT !.pc = "exited"]
  /\ UNCHANGED mode

\* the application is closed, or has ended, and is launched again
Relaunch ==
  /\ cfg.pc \in {"ready", "exited", "crashed"}
  /\ cfg' = [cfg EXCEPT !.pc = "start", !.config = EmptyDoc, !.err = "none"]
  /\ UNCHANGED mode

\* save_settings, ui_manager.py lines 453-461, from entry i on.  new_config is a
\* shallow copy: a section it took from the current configuration is the same
\* dict in both, so the assignment of line 461 changes cur as well; a section
\* that is not a dict has no .get (AttributeError ends the callback).
RECURSIVE FillEntries(_, _, _, _)
FillEntries(new, cur, i, v) ==
  IF i > Len(config_entries) THEN [new |-> new, cur |-> cur, raised |-> FALSE]
  ELSE LET s == config_entries[i]
       IN IF ~HasSection(new, s)
            THEN FillEntries(WithFilledSection(new, s, v), cur, i + 1, v)
          ELSE IF ~IsDictSection(new, s)
            THEN [new |-> new, cur |-> cur, raised |-> TRUE]
          ELSE FillEntries(WithFilledSection(new, s, v), WithFilledSection(cur, s, v),
                           i + 1, v)

\* some caller hands a document to ConfigManager.save_config(new_config)
SaveConfigCall ==
  /\ cfg.pc = "ready"
  /\ \E d \in Docs :
       cfg' = [cfg EXCEPT !.new_config = d, !.op = "direct", !.pc = "L87",
                          !.before = [config |-> cfg.config, disk |-> cfg.disk]]
  /\ UNCHANGED mode

\* save_settings, ui_manager.py line 452: new_config = self.config_manager.config.copy()
\* (a configuration that is not a dict has no .copy: AttributeError ends the
\* callback with nothing changed)
SaveSettingsCopy ==
  /\ cfg.pc = "ready"
  /\ cfg' = IF IsDict(cfg.config)
              THEN [cfg EXCEPT !.new_config = cfg.config, !.op = "settings", !.pc = "L453",
                               !.before = [config |-> cfg.config, disk |-> cfg.disk]]
              ELSE cfg
  /\ UNCHANGED mode

\* save_settings, lines 453-463: the entries are written into new_config, then
\* save_config(new_config) is called
SaveSettingsFill ==
  /\ cfg.pc = "L453"
  /\ \E v \in Values :
       LET filled == FillEntries(cfg.new_config, cfg.config, 1, v)
       IN cfg' = IF filled.raised
                   THEN [cfg EXCEPT !.config = filled.cur, !.new_config = NoDoc,
                                    !.pc = "ready", !.op = "none", !.before = NoBefore]
                   ELSE [cfg EXCEPT !.config = filled.cur, !.new_config = filled.new,
                                    !.pc = "L87"]
  /\ UNCHANGED mode

\* save_config, line 87: open(self.config_path, "w") empties the file, or raises
SaveOpen ==
  /\ cfg.pc = "L87"
  /\ \/ cfg' = [cfg EXCEPT !.disk = EmptyFile, !.last_saved = NoSave, !.pc = "L88"]
     \/ cfg' = [cfg EXCEPT !.pc = "L92"]
  /\ UNCHANGED mode

\* line 88: json.dump(new_config, f, indent=4) writes the whole text, or the
\* write fails after some of it
SaveDump ==
  /\ cfg.pc = "L88"
  /\ \/ cfg' = [cfg EXCEPT !.disk = FileOf(cfg.new_config), !.pc = "L89"]
     \/ cfg' = [cfg EXCEPT !.pc = "L92"]
     \/ \E n \in 1..Len(required_sections) :
          cfg' = [cfg EXCEPT !.disk = PartialFile(cfg.new_config, n), !.pc = "L92"]
  /\ UNCHANGED mode

\* lines 89-90: self.config = new_config; return True
SaveAssign ==
  /\ cfg.pc = "L89"
  /\ cfg' = [cfg EXCEPT !.config = cfg.new_config,
                        !.last_saved = [ok |-> TRUE, doc |-> cfg.new_config],
                        !.pc = "ready", !.new_config = NoDoc, !.op = "none",
                        !.before = NoBefore]
  /\ UNCHANGED mode

\* lines 91-93: except Exception: messagebox.showerror(...); return False
SaveReport ==
  /\ cfg.pc = "L92"
  /\ cfg' = [cfg EXCEPT !.pc = "ready", !.new_config = NoDoc, !.op = "none",
                        !.before = NoBefore]
  /\ UNCHANGED mode

ConfigNext ==
  \/ ConfigManagerInit
  \/ LoadExists
  \/ LoadParse
  \/ LoadValidate
  \/ LoadReport
  \/ Relaunch
  \/ SaveConfigCall
  \/ SaveSettingsCopy
  \/ SaveSettingsFill
  \/ SaveOpen
  \/ SaveDump
  \/ SaveAssign
  \/ SaveReport

ConfigSpec == ConfigInit /\ [][ConfigNext]_vars

\* ---------------------------------------------------------------------
\* Loading and saving the configuration
\* ---------------------------------------------------------------------

\* C16: load_config succeeds exactly when config.json exists, parses, and holds
\* every required section with every required key; in each other case the
\* matching error (missing, malformed, invalid) is reported and the process
\* exits through line 31, and never ends in any other way.
C16_LoadSucceedsIffValid ==
  [][ LET parsed == Decode(TextOf(cfg.disk))
          complete == \A s \in Sections : /\ HasSection(parsed, s)
                                          /\ IsDictSection(parsed, s)
                                          /\ required_keys[s] \subseteq KeysOf(parsed, s)
          valid == cfg.disk.exists /\ cfg.disk.whole /\ complete
      IN /\ (cfg.pc = "L24" /\ cfg'.pc = "ready") => valid
         /\ (cfg.pc = "L24" /\ cfg'.pc # "L24" /\ valid) => cfg'.pc = "ready"
         /\ (cfg.pc = "L27" /\ cfg'.pc = "exited") =>
               /\ cfg.err = "FileNotFoundError" <=> ~cfg.disk.exists
               /\ cfg.err = "JSONDecodeError" <=> (cfg.disk.exists /\ ~cfg.disk.whole)
               /\ cfg.err = "ValueError" <=> (cfg.disk.exists /\ cfg.disk.whole /\ ~complete)
         /\ cfg'.pc # "crashed" ]_vars

\* C17: a load that has failed leaves the stored configuration as the
\* constructor made it: the rejected document is not in self.config.
C17_FailedLoadStoresNothing ==
  cfg.err # "none" => cfg.config = EmptyDoc

\* C18: when a save fails (save_config returns False through line 93), the
\* in-memory configuration is what it was when the save operation began, for
\* a direct save_config call and for save_settings.
C18_FailedSaveKeepsConfig ==
  [][ (cfg.pc = "L92" /\ cfg'.pc = "ready") => cfg'.config = cfg.before.config ]_vars

\* C19: when save_config returns, config.json holds either the whole new document
\* (success) or exactly what it held before the call (failure), and save_config
\* assigns self.config only after the whole document has been written.
C19_SaveIsAtomic ==
  [][ /\ (cfg.pc = "L89" /\ cfg'.pc = "ready") => cfg'.disk = FileOf(cfg.new_config)
      /\ (cfg.pc = "L92" /\ cfg'.pc = "ready") => cfg'.disk = cfg.before.disk
      /\ (cfg.pc \in {"L87", "L88", "L89", "L92"} /\ cfg'.config # cfg.config)
            => (cfg.pc = "L89" /\ cfg.disk = FileOf(cfg.new_config)) ]_vars

LoadSucceeded == cfg.pc \in {"ready", "L453", "L87", "L88", "L89", "L92"}

\* C25: after a successful load the current configuration holds every required
\* section and key in every later state, whatever save_config calls follow and
\* whether they succeed or fail: load_config would not reject it.
C25_SavedConfigStaysValid ==
  LoadSucceeded => validate_config(cfg.config) = "ok"

\* ---------------------------------------------------------------------
\* FactoryLineGUI (src/src/main.py): the application of main.py, with mode
\* flags and counters of its own, its worker threads, its status thread and
\* its shutdown.  Labels are the line numbers of main.py.
\* ---------------------------------------------------------------------

NoGuiWorker == [pc |-> "unborn", tmp |-> 0]

\* FactoryLineGUI.__init__, lines 20-49: the state when mainloop() is entered
Constructed ==
  [pc |-> "idle", is_collecting |-> FALSE, is_classifying |-> FALSE,
   image_count |-> 0, classification_count |-> 0,
   update_thread_running |-> TRUE, root |-> TRUE, status |-> "L573",
   workers |-> [t \in Threads |-> NoGuiWorker], nworkers |-> 0]

GuiInit ==
  /\ HardwareInit
  /\ images_per_session = 0
  /\ ConfigLoaded
  /\ gui = Constructed

hwapp == <<hw, images_per_session, ui_pc, threads, nthreads, hist, cfg>>

\* daemon threads of main.py that are started and have not ended
GuiLoopPcs(kind) ==
  IF kind = "collection" THEN {"L517", "L520", "L522", "L549", "L549w"}
                         ELSE {"L528", "L531", "L533", "L554", "L554w"}
GuiWorkerAlive(t) ==
  gui.workers[t].pc \in GuiLoopPcs("collection") \cup GuiLoopPcs("classification")
LiveGuiWorkers == {t \in Threads : GuiWorkerAlive(t)}
StatusAlive == gui.status \in {"L573", "L576"}

\* mainloop() dispatches a bound callback: toggle_collection (line 436),
\* toggle_classification (line 471), or show_exit_button (line 586) answered yes
GuiDispatch ==
  /\ gui.pc = "idle"
  /\ gui.root
  /\ \E entry \in {"L438", "L473", "L600"} :
       /\ entry \in {"L438", "L473"} => gui.nworkers < NThreads
       /\ gui' = [gui EXCEPT !.pc = entry]
  /\ UNCHANGED <<hwapp, model_exists>>

\* toggle_collection, lines 438-441, and the guard of start_collection, lines
\* 445-447: stop_collection when collecting, else start_collection, which
\* refuses (warning dialog) while classifying
ToggleCollection ==
  /\ gui.pc = "L438"
  /\ gui' = [gui EXCEPT !.pc = IF gui.is_collecting THEN "L465"
                               ELSE IF gui.is_classifying THEN "idle" ELSE "L449"]
  /\ UNCHANGED <<hwapp, model_exists>>

\* start_collection, line 449: self.is_collecting = True
GuiStartCollectionSet ==
  /\ gui.pc = "L449"
  /\ gui' = [gui EXCEPT !.is_collecting = TRUE, !.pc = "L458"]
  /\ UNCHANGED <<hwapp, model_exists>>

\* lines 458-461: the collection thread is created and started
GuiStartCollectionSpawn ==
  /\ gui.pc = "L458"
  /\ gui' = [gui EXCEPT !.workers[gui.nworkers + 1].pc = "L517",
                        !.nworkers = @ + 1, !.pc = "idle"]
  /\ UNCHANGED <<hwapp, model_exists>>

\* stop_collection, line 465: self.is_collecting = False (no join)
GuiStopCollection ==
  /\ gui.pc = "L465"
  /\ gui' = [gui EXCEPT !.is_collecting = FALSE, !.pc = "idle"]
  /\ UNCHANGED <<hwapp, model_exists>>

\* toggle_classification, lines 473-476, and the guards of start_classification,
\* lines 480-491: refused while collecting, and when the model file is missing
ToggleClassification ==
  /\ gui.pc = "L473"
  /\ gui' = [gui EXCEPT !.pc = IF gui.is_classifying THEN "L509"
                               ELSE IF gui.is_collecting \/ ~model_exists THEN "idle"
                               ELSE "L493"]
  /\ UNCHANGED <<hwapp, model_exists>>

\* start_classification, line 493: self.is_classifying = True
GuiStartClassificationSet ==
  /\ gui.pc = "L493"
  /\ gui' = [gui EXCEPT !.is_classifying = TRUE, !.pc = "L502"]
  /\ UNCHANGED <<hwapp, model_exists>>

\* lines 502-505: the classification thread is created and started
GuiStartClassificationSpawn ==
  /\ gui.pc = "L502"
  /\ gui' = [gui EXCEPT !.workers[gui.nworkers + 1].pc = "L528",
                        !.nworkers = @ + 1, !.pc = "idle"]
  /\ UNCHANGED <<hwapp, model_exists>>

\* stop_classification, line 509: self.is_classifying = False (no join)
GuiStopClassification ==
  /\ gui.pc = "L509"
  /\ gui' = [gui EXCEPT !.is_classifying = FALSE, !.pc = "idle"]
  /\ UNCHANGED <<hwapp, model_exists>>

\* cleanup_and_exit, line 600: self.is_collecting = False
CleanupClearCollecting ==
  /\ gui.pc = "L600"
  /\ gui' = [gui EXCEPT !.is_collecting = FALSE, !.pc = "L601"]
  /\ UNCHANGED <<hwapp, model_exists>>

\* line 601: self.is_classifying = False
CleanupClearClassifying ==
  /\ gui.pc = "L601"
  /\ gui' = [gui EXCEPT !.is_classifying = FALSE, !.pc = "L602"]
  /\ UNCHANGED <<hwapp, model_exists>>

\* line 602: self.update_thread_running = False
CleanupClearStatus ==
  /\ gui.pc = "L602"
  /\ gui' = [gui EXCEPT !.update_thread_running = FALSE, !.pc = "L603"]
  /\ UNCHANGED <<hwapp, model_exists>>

\* line 603: self.root.destroy(); mainloop() of line 607 will return
CleanupDestroy ==
  /\ gui.pc = "L603"
  /\ gui' = [gui EXCEPT !.root = FALSE, !.pc = "L607"]
  /\ UNCHANGED <<hwapp, model_exists>>

\* lines 607-613: mainloop() has returned, the main thread ends and with it the
\* process: its daemon threads are stopped wherever they are
ProcessExit ==
  /\ gui.pc = "L607"
  /\ gui' = [gui EXCEPT
               !.pc = "exited",
               !.status = IF StatusAlive THEN "killed" ELSE @,
               !.workers = [t \in Threads |->
                              IF GuiWorkerAlive(t) THEN [@[t] EXCEPT !.pc = "killed"]
                                                   ELSE @[t]]]
  /\ UNCHANGED <<hwapp, model_exists>>

GuiHandlerStep ==
  \/ ToggleCollection
  \/ GuiStartCollectionSet
  \/ GuiStartCollectionSpawn
  \/ GuiStopCollection
  \/ ToggleClassification
  \/ GuiStartClassificationSet
  \/ GuiStartClassificationSpawn
  \/ GuiStopClassification
  \/ CleanupClearCollecting
  \/ CleanupClearClassifying
  \/ CleanupClearStatus
  \/ CleanupDestroy
  \/ ProcessExit

\* collection_loop, line 517: while self.is_collecting (no further cycle is
\* begun once image_count has reached MaxCount)
GuiCollectionTest(t) ==
  /\ gui.workers[t].pc = "L517"
  /\ gui.is_collecting => gui.image_count < MaxCount
  /\ gui' = [gui EXCEPT !.workers[t].pc = IF gui.is_collecting THEN "L520" ELSE "done"]
  /\ UNCHANGED <<hwapp, model_exists>>

\* line 520: time.sleep(2) returns
GuiCollectionSleep(t) ==
  /\ gui.workers[t].pc = "L520"
  /\ gui' = [gui EXCEPT !.workers[t].pc = "L522"]
  /\ UNCHANGED <<hwapp, model_exists>>

\* line 522: if self.is_collecting, checked again after the sleep
GuiCollectionRetest(t) ==
  /\ gui.workers[t].pc = "L522"
  /\ gui' = [gui EXCEPT !.workers[t].pc = IF gui.is_collecting THEN "L549" ELSE "L517"]
  /\ UNCHANGED <<hwapp, model_exists>>

\* simulate_image_capture, line 549: the load of self.image_count += 1
GuiCollectionIncRead(t) ==
  /\ gui.workers[t].pc = "L549"
  /\ gui' = [gui EXCEPT !.workers[t].pc = "L549w", !.workers[t].tmp = gui.image_count]
  /\ UNCHANGED <<hwapp, model_exists>>

\* line 549: the store of self.image_count += 1; back to line 517
GuiCollectionIncWrite(t) ==
  /\ gui.workers[t].pc = "L549w"
  /\ gui' = [gui EXCEPT !.image_count = gui.workers[t].tmp + 1,
                        !.workers[t].pc = "L517", !.workers[t].tmp = 0]
  /\ UNCHANGED <<hwapp, model_exists>>

\* classification_loop, line 528: while self.is_classifying (no further cycle
\* is begun once classification_count has reached MaxCount)
GuiClassificationTest(t) ==
  /\ gui.workers[t].pc = "L528"
  /\ gui.is_classifying => gui.classification_count < MaxCount
  /\ gui' = [gui EXCEPT !.workers[t].pc = IF gui.is_classifying THEN "L531" ELSE "done"]
  /\ UNCHANGED <<hwapp, model_exists>>

\* line 531: time.sleep(3) returns
GuiClassificationSleep(t) ==
  /\ gui.workers[t].pc = "L531"
  /\ gui' = [gui EXCEPT !.workers[t].pc = "L533"]
  /\ UNCHANGED <<hwapp, model_exists>>

\* line 533: if self.is_classifying, checked again after the sleep
GuiClassificationRetest(t) ==
  /\ gui.workers[t].pc = "L533"
  /\ gui' = [gui EXCEPT !.workers[t].pc = IF gui.is_classifying THEN "L554" ELSE "L528"]
  /\ UNCHANGED <<hwapp, model_exists>>

\* simulate_classification, line 554: the load of self.classification_count += 1
GuiClassificationIncRead(t) ==
  /\ gui.workers[t].pc = "L554"
  /\ gui' = [gui EXCEPT !.workers[t].pc = "L554w",
                        !.workers[t].tmp = gui.classification_count]
  /\ UNCHANGED <<hwapp, model_exists>>

\* line 554: the store of self.classification_count += 1; back to line 528
GuiClassificationIncWrite(t) ==
  /\ gui.workers[t].pc = "L554w"
  /\ gui' = [gui EXCEPT !.classification_count = gui.workers[t].tmp + 1,
                        !.workers[t].pc = "L528", !.workers[t].tmp = 0]
  /\ UNCHANGED <<hwapp, model_exists>>

GuiWorkerStep(t) ==
  \/ GuiCollectionTest(t)
  \/ GuiCollectionSleep(t)
  \/ GuiCollectionRetest(t)
  \/ GuiCollectionIncRead(t)
  \/ GuiCollectionIncWrite(t)
  \/ GuiClassificationTest(t)
  \/ GuiClassificationSleep(t)
  \/ GuiClassificationRetest(t)
  \/ GuiClassificationIncRead(t)
  \/ GuiClassificationIncWrite(t)

\* update_status_loop, line 573: while self.update_thread_running
StatusTest ==
  /\ gui.status = "L573"
  /\ gui' = [gui EXCEPT !.status = IF gui.update_thread_running THEN "L576" ELSE "done"]
  /\ UNCHANGED <<hwapp, model_exists>>

\* lines 575-584: the labels are updated (TclError once the root is destroyed,
\* which ends the thread), then time.sleep(1)
StatusUpdate ==
  /\ gui.status = "L576"
  /\ gui' = [gui EXCEPT !.status = IF gui.root THEN "L573" ELSE "raised"]
  /\ UNCHANGED <<hwapp, model_exists>>

StatusStep == StatusTest \/ StatusUpdate

\* the model file is put in place or removed while main.py runs
GuiPlaceModel ==
  /\ gui.pc # "exited"
  /\ model_exists' = ~model_exists
  /\ UNCHANGED <<hwapp, gui>>

GuiNext ==
  \/ GuiDispatch
  \/ GuiHandlerStep
  \/ \E t \in Threads : GuiWorkerStep(t)
  \/ StatusStep
  \/ GuiPlaceModel

\* the presentation thread runs a callback to its end, and every started
\* thread is scheduled again and again
GuiSpec ==
  /\ GuiInit
  /\ [][GuiNext]_vars
  /\ WF_vars(GuiHandlerStep)
  /\ \A t \in Threads : WF_vars(GuiWorkerStep(t))
  /\ WF_vars(StatusStep)

\* ---------------------------------------------------------------------
\* Shutdown
\* ---------------------------------------------------------------------

\* C21: on shutdown every live worker is signalled and joined, and the mode ends
\* in Standby: cleanup_and_exit goes on from its flag writes to root.destroy()
\* without a join only when no worker is alive; once it has been called both
\* flags become and stay false; and every background loop ends.
C21_ShutdownStopsAndJoins ==
  /\ [][ (gui.pc = "L602" /\ gui'.pc = "L603") => LiveGuiWorkers = {} ]_vars
  /\ [](gui.pc \in {"L602", "L603", "L607", "exited"}
          => (~gui.is_collecting /\ ~gui.is_classifying))
  /\ (gui.pc = "L600") ~> (LiveGuiWorkers = {} /\ ~StatusAlive)

====
